---- MODULE Spec2Model ----
(***************************************************************************)
(* Search engines of src/src/search_system.py and the retrieval functions  *)
(* of src/src/library_name.py they are built on.                           *)
(*                                                                         *)
(* A Python str is a sequence of one-character strings.  A Python dict is  *)
(* a function whose DOMAIN is its key set.  A score (int or float) is a    *)
(* fraction <<numerator, denominator>> in lowest terms, so that equal      *)
(* values are equal tuples.                                                *)
(***************************************************************************)
EXTENDS Integers, Sequences, FiniteSets, TLC

VARIABLES
    engine_type,          \* class of the engine: "boolean", "ranked", "semantic"
    document_collection,  \* AbstractSearchEngine._document_collection
    search_history,       \* AbstractSearchEngine._search_history
    is_initialized,       \* AbstractSearchEngine._is_initialized
    inverted_index,       \* BooleanSearchEngine._inverted_index
    index_built,          \* BooleanSearchEngine._index_built
    scoring_method,       \* RankedSearchEngine._scoring_method
    similarity_threshold, \* SemanticSearchEngine._similarity_threshold
    input,                \* the arguments a library function is called with
    call                  \* the last call made: operation, argument, outcome

vars == <<engine_type, document_collection, search_history, is_initialized,
          inverted_index, index_built, scoring_method, similarity_threshold,
          input, call>>

engine_vars == <<engine_type, document_collection, search_history,
                 is_initialized, inverted_index, index_built, scoring_method,
                 similarity_threshold>>

-----------------------------------------------------------------------------
(* Bounds of the model *)

MaxDocs == 2        \* documents added to one engine
MaxHistory == 2     \* searches recorded by one engine
MaxLibDocs == 3     \* documents handed to a library function
MaxQueryLen == 3    \* characters of a query handed to a library function
MaxItems == 3       \* results handed to filter_sort_paginate_results
MaxTextLen == 5     \* characters of a text handed to a text function

-----------------------------------------------------------------------------
(* Python str *)

Whitespace == {" ", "\t"}

Str(n, chars) == UNION {[1..k -> chars] : k \in 0..n}

Range(s) == {s[i] : i \in DOMAIN s}

UpperCase ==
    <<"A", "B", "C", "D", "E", "F", "G", "H", "I", "J", "K", "L", "M",
      "N", "O", "P", "Q", "R", "S", "T", "U", "V", "W", "X", "Y", "Z">>

LowerCase ==
    <<"a", "b", "c", "d", "e", "f", "g", "h", "i", "j", "k", "l", "m",
      "n", "o", "p", "q", "r", "s", "t", "u", "v", "w", "x", "y", "z">>

\* the lowercase letter of every uppercase letter
ToLower ==
    [c \in Range(UpperCase) |->
        LowerCase[CHOOSE i \in DOMAIN UpperCase : UpperCase[i] = c]]

\* str.lower() on one character
lower_char(c) == IF c \in DOMAIN ToLower THEN ToLower[c] ELSE c

\* str.lower()
lower(s) == [i \in 1..Len(s) |-> lower_char(s[i])]

\* the uppercase letter of every lowercase letter
ToUpper ==
    [c \in Range(LowerCase) |->
        UpperCase[CHOOSE i \in DOMAIN LowerCase : LowerCase[i] = c]]

\* str.upper()
upper(s) ==
    [i \in 1..Len(s) |-> IF s[i] \in DOMAIN ToUpper THEN ToUpper[s[i]] ELSE s[i]]

Letters == Range(UpperCase) \cup Range(LowerCase)

\* str.title(): a letter is uppercased after a non-letter, lowercased after a
\* letter
title_case(s) ==
    [i \in 1..Len(s) |->
        IF i = 1 \/ s[i - 1] \notin Letters
        THEN (IF s[i] \in DOMAIN ToUpper THEN ToUpper[s[i]] ELSE s[i])
        ELSE lower_char(s[i])]

\* str.strip(chars)
RECURSIVE strip_chars(_, _)
strip_chars(s, chars) ==
    IF s # <<>> /\ Head(s) \in chars THEN strip_chars(Tail(s), chars)
    ELSE IF s # <<>> /\ s[Len(s)] \in chars
         THEN strip_chars(SubSeq(s, 1, Len(s) - 1), chars)
         ELSE s

\* ' '.join(words)
RECURSIVE join(_)
join(words) ==
    IF words = <<>> THEN <<>>
    ELSE IF Len(words) = 1 THEN words[1]
    ELSE words[1] \o <<" ">> \o join(Tail(words))

RECURSIVE lstrip(_)
lstrip(s) ==
    IF s # <<>> /\ Head(s) \in Whitespace THEN lstrip(Tail(s)) ELSE s

RECURSIVE rstrip(_)
rstrip(s) ==
    IF s # <<>> /\ s[Len(s)] \in Whitespace
    THEN rstrip(SubSeq(s, 1, Len(s) - 1))
    ELSE s

\* str.strip(): whitespace removed at both ends
strip(s) == rstrip(lstrip(s))

\* str.split(): the maximal runs of non-whitespace characters, in order
RECURSIVE split_from(_, _, _)
split_from(s, i, word) ==
    IF i > Len(s)
    THEN IF word = <<>> THEN <<>> ELSE <<word>>
    ELSE IF s[i] \in Whitespace
         THEN IF word = <<>>
              THEN split_from(s, i + 1, <<>>)
              ELSE <<word>> \o split_from(s, i + 1, <<>>)
         ELSE split_from(s, i + 1, Append(word, s[i]))

split(s) == split_from(s, 1, <<>>)

\* whether sub occurs in s at position i
occurs_at(s, sub, i) ==
    /\ i + Len(sub) - 1 <= Len(s)
    /\ \A k \in 1..Len(sub) : s[i + k - 1] = sub[k]

\* sub in s
contains(s, sub) == \E i \in 1..(Len(s) + 1) : occurs_at(s, sub, i)

\* str.replace(old, new) for a non-empty old: left to right, non-overlapping
RECURSIVE replace_from(_, _, _, _)
replace_from(s, old, new, i) ==
    IF i > Len(s) THEN <<>>
    ELSE IF occurs_at(s, old, i)
         THEN new \o replace_from(s, old, new, i + Len(old))
         ELSE <<s[i]>> \o replace_from(s, old, new, i + 1)

replace(s, old, new) == replace_from(s, old, new, 1)

\* str.count(sub): non-overlapping occurrences; len(s) + 1 for an empty sub
RECURSIVE count_from(_, _, _)
count_from(s, sub, i) ==
    IF i > Len(s) THEN 0
    ELSE IF occurs_at(s, sub, i)
         THEN 1 + count_from(s, sub, i + Len(sub))
         ELSE count_from(s, sub, i + 1)

count(s, sub) == IF sub = <<>> THEN Len(s) + 1 ELSE count_from(s, sub, 1)

\* set(list)
set(list) == Range(list)

-----------------------------------------------------------------------------
(* Python numbers: fractions in lowest terms *)

RECURSIVE gcd(_, _)
gcd(a, b) == IF b = 0 THEN a ELSE gcd(b, a % b)

Abs(n) == IF n < 0 THEN -n ELSE n

\* n / d for d > 0
Frac(n, d) ==
    LET g == gcd(Abs(n), d) IN <<n \div g, d \div g>>

Whole(n) == <<n, 1>>

Leq(x, y) == x[1] * y[2] <= y[1] * x[2]
Less(x, y) == x[1] * y[2] < y[1] * x[2]

RECURSIVE SumOver(_, _)
SumOver(S, f) ==
    IF S = {} THEN 0
    ELSE LET x == CHOOSE y \in S : TRUE IN f[x] + SumOver(S \ {x}, f)

\* sorted(seq, key=..., reverse=True) as the order of the positions of seq:
\* stable and descending.  gt[i][j] is key(seq[i]) > key(seq[j]).  Each
\* position goes behind every position already placed whose key is not
\* smaller than its own.
RECURSIVE insert_desc(_, _, _)
insert_desc(placed, i, gt) ==
    IF placed = <<>> THEN <<i>>
    ELSE IF gt[i][Head(placed)]
         THEN <<i>> \o placed
         ELSE <<Head(placed)>> \o insert_desc(Tail(placed), i, gt)

RECURSIVE sorted_desc_order(_, _)
sorted_desc_order(n, gt) ==
    IF n = 0 THEN <<>>
    ELSE insert_desc(sorted_desc_order(n - 1, gt), n, gt)

sorted_desc(seq, gt) ==
    LET order == sorted_desc_order(Len(seq), gt)
    IN  [k \in 1..Len(seq) |-> seq[order[k]]]

\* seq[:k]
slice_to(seq, k) ==
    LET n == Len(seq)
        stop == IF k >= 0 THEN (IF k < n THEN k ELSE n)
                ELSE (IF n + k > 0 THEN n + k ELSE 0)
    IN  SubSeq(seq, 1, stop)

\* seq[i:j] for 0 <= i <= j
slice(seq, i, j) ==
    SubSeq(seq, i + 1, IF j < Len(seq) THEN j ELSE Len(seq))

\* dict.get(key, default)
get(dict, key, default) == IF key \in DOMAIN dict THEN dict[key] ELSE default

-----------------------------------------------------------------------------
(* src/src/library_name.py *)

\* normalize_query with one pass of replace in place of the loop
normalize_query_once(query) ==
    replace(strip(lower(query)), <<" ", " ">>, <<" ">>)

normalize_query(query) ==
    LET RECURSIVE collapse(_)
        collapse(normalized) ==
            IF contains(normalized, <<" ", " ">>)
            THEN collapse(replace(normalized, <<" ", " ">>, <<" ">>))
            ELSE normalized
    IN  collapse(strip(lower(query)))

\* the character U+2026
Ellipsis == "..."

\* str.rfind(c): the 0-based place of the last c, -1 when there is none
rfind(s, c) ==
    IF \E i \in DOMAIN s : s[i] = c
    THEN (CHOOSE i \in DOMAIN s :
              s[i] = c /\ \A j \in DOMAIN s : s[j] = c => j <= i) - 1
    ELSE -1

truncate_snippet(text, max_chars) ==
    IF Len(text) <= max_chars THEN text
    ELSE LET truncated == slice_to(text, max_chars)
             last_space == rfind(truncated, " ")
         IN  IF last_space = -1
             THEN truncated \o <<Ellipsis>>
             ELSE slice_to(truncated, last_space) \o <<Ellipsis>>

\* the characters of '.,!?;:"()[]{}'
Punctuation ==
    {".", ",", "!", "?", ";", ":", "\"", "(", ")", "[", "]", "{", "}"}

\* the word as one pass of highlight_query_terms leaves it
highlight_word(word, term, pre, post) ==
    LET clean_word == lower(strip_chars(word, Punctuation))
    IN  IF clean_word = lower(term)
        THEN replace(
                 replace(
                     replace(word, title_case(clean_word),
                             pre \o title_case(clean_word) \o post),
                     upper(clean_word), pre \o upper(clean_word) \o post),
                 clean_word, pre \o clean_word \o post)
        ELSE word

\* the text after the passes for sorted_terms
RECURSIVE highlight_passes(_, _, _, _)
highlight_passes(result_text, sorted_terms, pre, post) ==
    IF sorted_terms = <<>> THEN result_text
    ELSE LET words == split(result_text)
             new_words ==
                 [i \in DOMAIN words |->
                     highlight_word(words[i], Head(sorted_terms), pre, post)]
         IN  highlight_passes(join(new_words), Tail(sorted_terms), pre, post)

\* sorted(terms, key=len, reverse=True)
longest_first(terms) ==
    sorted_desc(terms,
        [i \in DOMAIN terms |-> [j \in DOMAIN terms |->
            Len(terms[i]) > Len(terms[j])]])

highlight_query_terms(text, terms, pre, post) ==
    highlight_passes(text, longest_first(terms), pre, post)

clean_text(text) == lower(text)

\* an index of the tokens as they are written, not lowercased
build_inverted_index_cased(documents) ==
    LET tokens(i) == split(documents[i])
        terms == UNION {set(tokens(i)) : i \in 1..Len(documents)}
    IN  IF terms = {} THEN <<>>
        ELSE [token \in terms |->
                {i - 1 : i \in {j \in 1..Len(documents) :
                                   token \in set(tokens(j))}}]

\* A defaultdict(set) filled document by document, returned as a dict: a term
\* is a key exactly when some document added it.
build_inverted_index(documents) ==
    LET tokens(i) == split(clean_text(documents[i]))
        terms == UNION {set(tokens(i)) : i \in 1..Len(documents)}
    IN  IF terms = {} THEN <<>>
        ELSE [token \in terms |->
                {i - 1 : i \in {j \in 1..Len(documents) :
                                   token \in set(tokens(j))}}]

\* retrieval that joins the postings of the terms instead of intersecting them
boolean_retrieval_or(query, index) ==
    LET tokens == split(clean_text(query))
    IN  UNION {get(index, tokens[i], {}) : i \in 1..Len(tokens)}

boolean_retrieval(query, index) ==
    LET tokens == split(clean_text(query))
        RECURSIVE intersect(_, _)
        intersect(result, rest) ==
            IF rest = <<>> THEN result
            ELSE intersect(result \cap get(index, Head(rest), {}), Tail(rest))
    IN  IF tokens = <<>> THEN {}
        ELSE intersect(get(index, tokens[1], {}), Tail(tokens))

\* Counter(tokens)
Counter(tokens) ==
    [token \in set(tokens) |->
        Cardinality({i \in 1..Len(tokens) : tokens[i] = token})]

\* The score rank_documents gives one document for the set of query tokens.
tf_score_presence(query_tokens, document) ==
    LET doc_tokens == split(clean_text(document))
        score == Cardinality(query_tokens \cap set(doc_tokens))
    IN  IF doc_tokens # <<>> THEN Frac(score, Len(doc_tokens)) ELSE Whole(score)

\* the score before it is divided by the length of the document
tf_score_raw(query_tokens, document) ==
    LET doc_counter == Counter(split(clean_text(document)))
    IN  Whole(SumOver(query_tokens \cap DOMAIN doc_counter, doc_counter))

tf_score(query_tokens, document) ==
    LET doc_tokens == split(clean_text(document))
        doc_counter == Counter(doc_tokens)
        score == SumOver(query_tokens \cap DOMAIN doc_counter, doc_counter)
    IN  IF doc_tokens # <<>> THEN Frac(score, Len(doc_tokens)) ELSE Whole(score)

\* scores that count a query token as often as the query repeats it
scores_of_repeated(query, documents) ==
    LET query_tokens == split(clean_text(query))
        doc_tokens(i) == split(clean_text(documents[i]))
        hits(i) ==
            Cardinality({pair \in (DOMAIN query_tokens) \X (DOMAIN doc_tokens(i)) :
                query_tokens[pair[1]] = doc_tokens(i)[pair[2]]})
    IN  [i \in 1..Len(documents) |->
            <<i - 1, IF doc_tokens(i) # <<>>
                     THEN Frac(hits(i), Len(doc_tokens(i)))
                     ELSE Whole(0)>>]

\* (doc_id, score) pairs in document order
scores_of(query, documents) ==
    LET query_tokens == set(split(clean_text(query)))
    IN  [i \in 1..Len(documents) |->
            <<i - 1, tf_score(query_tokens, documents[i])>>]

score_gt(pairs) ==
    [i \in 1..Len(pairs) |-> [j \in 1..Len(pairs) |->
        Less(pairs[j][2], pairs[i][2])]]

\* a descending sort that puts the later of two equal scores first
score_ge(pairs) ==
    [i \in 1..Len(pairs) |-> [j \in 1..Len(pairs) |->
        Leq(pairs[j][2], pairs[i][2])]]

rank_documents_unstable(query, documents, top_k) ==
    slice_to(sorted_desc(scores_of(query, documents),
                         score_ge(scores_of(query, documents))), top_k)

\* sorted(scores, key=lambda x: x[1], reverse=True)
sorted_by_score(scores) == sorted_desc(scores, score_gt(scores))

rank_documents(query, documents, top_k) ==
    slice_to(sorted_by_score(scores_of(query, documents)), top_k)

\* Both branches (model given or not) return the term-frequency ranking.
semantic_search(query, documents, model, top_k) ==
    rank_documents(query, documents, top_k)

\* ord(c) of the characters dates are written with
ord(c) ==
    CASE c = "0" -> 48
      [] c = "1" -> 49
      [] c = "2" -> 50
      [] OTHER -> 45

\* a > b on str: lexicographic by character code
RECURSIVE str_gt(_, _)
str_gt(a, b) ==
    IF a = <<>> THEN FALSE
    ELSE IF b = <<>> THEN TRUE
    ELSE IF ord(Head(a)) # ord(Head(b)) THEN ord(Head(a)) > ord(Head(b))
    ELSE str_gt(Tail(a), Tail(b))

\* title matches weighted like text matches
pipeline_score_unweighted(result, query_terms) ==
    LET title == lower(get(result, "title", <<>>))
        text == lower(get(result, "text", <<>>))
        RECURSIVE add(_, _)
        add(score, terms) ==
            IF terms = <<>> THEN score
            ELSE LET term_lower == lower(Head(terms))
                 IN  add(score + count(title, term_lower)
                               + count(text, term_lower),
                         Tail(terms))
    IN  add(0, query_terms)

\* The score filter_sort_paginate_results gives one result.
pipeline_score(result, query_terms) ==
    LET title == lower(get(result, "title", <<>>))
        text == lower(get(result, "text", <<>>))
        RECURSIVE add(_, _)
        add(score, terms) ==
            IF terms = <<>> THEN score
            ELSE LET term_lower == lower(Head(terms))
                 IN  add(score + count(title, term_lower) * 2
                               + count(text, term_lower),
                         Tail(terms))
    IN  add(0, query_terms)

\* The results that meet min_score, each copied with its "score".
RECURSIVE score_results(_, _, _)
score_results(results, query_terms, min_score) ==
    IF results = <<>> THEN <<>>
    ELSE LET result == Head(results)
             score == pipeline_score(result, query_terms)
             rest == score_results(Tail(results), query_terms, min_score)
         IN  IF score >= min_score
             THEN <<("score" :> score) @@ result>> \o rest
             ELSE rest

by_score_gt(items) ==
    [i \in 1..Len(items) |-> [j \in 1..Len(items) |->
        items[i]["score"] > items[j]["score"]]]

by_date_gt(items) ==
    [i \in 1..Len(items) |-> [j \in 1..Len(items) |->
        str_gt(get(items[i], "date", <<>>), get(items[j], "date", <<>>))]]

\* sorting by date only when every result has a date
sort_results_all(scored_results, sort_by) ==
    IF sort_by = "score"
    THEN sorted_desc(scored_results, by_score_gt(scored_results))
    ELSE IF /\ sort_by = "date"
            /\ \A i \in 1..Len(scored_results) :
                   "date" \in DOMAIN scored_results[i]
         THEN sorted_desc(scored_results, by_date_gt(scored_results))
         ELSE scored_results

sort_results(scored_results, sort_by) ==
    IF sort_by = "score"
    THEN sorted_desc(scored_results, by_score_gt(scored_results))
    ELSE IF /\ sort_by = "date"
            /\ \E i \in 1..Len(scored_results) :
                   "date" \in DOMAIN scored_results[i]
         THEN sorted_desc(scored_results, by_date_gt(scored_results))
         ELSE scored_results

\* total_pages rounded down
paginate_floor(scored_results, page, per_page) ==
    LET total_results == Len(scored_results)
        start_idx == (page - 1) * per_page
        end_idx == start_idx + per_page
        page_results == IF start_idx >= total_results THEN <<>>
                        ELSE slice(scored_results, start_idx, end_idx)
    IN  [results |-> page_results,
         page |-> page,
         per_page |-> per_page,
         total_results |-> total_results,
         total_pages |-> total_results \div per_page]

paginate(scored_results, page, per_page) ==
    LET total_results == Len(scored_results)
        start_idx == (page - 1) * per_page
        end_idx == start_idx + per_page
        page_results == IF start_idx >= total_results THEN <<>>
                        ELSE slice(scored_results, start_idx, end_idx)
    IN  [results |-> page_results,
         page |-> page,
         per_page |-> per_page,
         total_results |-> total_results,
         total_pages |-> IF total_results > 0
                         THEN (total_results + per_page - 1) \div per_page
                         ELSE 0]

filter_sort_paginate_results(results, query_terms, page, per_page, sort_by, min_score) ==
    paginate(sort_results(score_results(results, query_terms, min_score),
                          sort_by),
             page, per_page)

-----------------------------------------------------------------------------
(* src/src/search_system.py: the state of one engine *)

None == <<>>

engine_id == "engine1"
name == "Engine"

document_count == Len(document_collection)

\* f"{doc.get('title', '')} {doc.get('text', '')}" for every document
documents_text_of(collection) ==
    [i \in 1..Len(collection) |->
        get(collection[i], "title", <<>>) \o <<" ">>
            \o get(collection[i], "text", <<>>)]

TechnicalTerms ==
    {<<"a", "l", "g", "o", "r", "i", "t", "h", "m">>, <<"d", "a", "t", "a">>,
     <<"m", "a", "c", "h", "i", "n", "e">>,
     <<"l", "e", "a", "r", "n", "i", "n", "g">>}

boolean_process_query(query) ==
    LET normalized == normalize_query(query)
        terms == split(normalized)
    IN  [type |-> "boolean", original |-> query, normalized |-> normalized,
         terms |-> terms, operator |-> "AND", term_count |-> Len(terms)]

ranked_process_query(query) ==
    LET normalized == normalize_query(query)
        terms == split(normalized)
    IN  [type |-> "ranked", original |-> query, normalized |-> normalized,
         terms |-> terms,
         term_weights |-> IF terms = <<>> THEN <<>>
                          ELSE [term \in set(terms) |-> Whole(1)],
         scoring_method |-> scoring_method, term_count |-> Len(terms)]

semantic_process_query(query) ==
    LET normalized == normalize_query(query)
        terms == split(normalized)
        semantic_features ==
            [query_length |-> Len(terms),
             has_technical_terms |->
                 \E i \in 1..Len(terms) : terms[i] \in TechnicalTerms,
             query_complexity |->
                 IF Len(terms) <= 2 THEN "simple" ELSE "complex"]
    IN  [type |-> "semantic", original |-> query, normalized |-> normalized,
         terms |-> terms, semantic_features |-> semantic_features,
         similarity_threshold |-> similarity_threshold,
         term_count |-> Len(terms)]

process_query(query) ==
    CASE engine_type = "boolean" -> boolean_process_query(query)
      [] engine_type = "ranked" -> ranked_process_query(query)
      [] engine_type = "semantic" -> semantic_process_query(query)

\* BooleanSearchEngine._build_inverted_index: the index and the flag it leaves
build_index_cache ==
    IF document_collection = <<>>
    THEN [inverted_index |-> [is_none |-> FALSE, dict |-> <<>>],
          index_built |-> index_built]
    ELSE [inverted_index |->
              [is_none |-> FALSE,
               dict |-> build_inverted_index(
                            documents_text_of(document_collection))],
          index_built |-> TRUE]

\* the cache after "if not self._index_built: self._build_inverted_index()"
index_cache_when_used ==
    IF ~index_built THEN build_index_cache
    ELSE [inverted_index |-> inverted_index, index_built |-> index_built]

\* a set of small ints is iterated in increasing order
RECURSIVE ascending(_)
ascending(S) ==
    IF S = {} THEN <<>>
    ELSE LET least == CHOOSE x \in S : \A y \in S : x <= y
         IN  <<least>> \o ascending(S \ {least})

\* "if self._inverted_index": neither None nor an empty dict
truthy(index) == ~index.is_none /\ DOMAIN index.dict # {}

boolean_execute_search(processed_query) ==
    LET index == index_cache_when_used.inverted_index
        matching_doc_indices ==
            ascending(boolean_retrieval(processed_query.normalized, index.dict))
        hit(idx) ==
            [search_score |-> Whole(1), match_type |-> "boolean_exact",
             matched_terms |-> processed_query.terms]
                @@ document_collection[idx + 1]
        RECURSIVE collect(_)
        collect(indices) ==
            IF indices = <<>> THEN <<>>
            ELSE IF 0 <= Head(indices) /\ Head(indices) < Len(document_collection)
                 THEN <<hit(Head(indices))>> \o collect(Tail(indices))
                 ELSE collect(Tail(indices))
    IN  IF truthy(index) THEN collect(matching_doc_indices) ELSE <<>>

ranked_execute_search(processed_query) ==
    LET documents_text == documents_text_of(document_collection)
        ranked_results ==
            rank_documents(processed_query.normalized, documents_text,
                           Len(documents_text))
        hit(pair) ==
            [search_score |-> pair[2], match_type |-> "ranked_relevance",
             scoring_method |-> scoring_method,
             matched_terms |-> processed_query.terms]
                @@ document_collection[pair[1] + 1]
        RECURSIVE collect(_)
        collect(pairs) ==
            IF pairs = <<>> THEN <<>>
            ELSE IF 0 <= Head(pairs)[1] /\ Head(pairs)[1] < Len(document_collection)
                 THEN <<hit(Head(pairs))>> \o collect(Tail(pairs))
                 ELSE collect(Tail(pairs))
    IN  IF documents_text = <<>> THEN <<>> ELSE collect(ranked_results)

\* what semantic_search returns to a SemanticSearchEngine
semantic_found(processed_query) ==
    semantic_search(processed_query.normalized,
                    documents_text_of(document_collection), None,
                    Len(document_collection))

\* the conversion of the found pairs to documents; kept[k] is the outcome of
\* the comparison of the score of found[k] with the threshold
semantic_results(processed_query, found, kept) ==
    LET hit(pair) ==
            [search_score |-> pair[2], match_type |-> "semantic_similarity",
             similarity_threshold |-> similarity_threshold,
             semantic_features |-> processed_query.semantic_features]
                @@ document_collection[pair[1] + 1]
        RECURSIVE collect(_)
        collect(k) ==
            IF k > Len(found) THEN <<>>
            ELSE IF /\ 0 <= found[k][1]
                    /\ found[k][1] < Len(document_collection)
                    /\ kept[k]
                 THEN <<hit(found[k])>> \o collect(k + 1)
                 ELSE collect(k + 1)
    IN  IF document_collection = <<>> THEN <<>> ELSE collect(1)

\* keeping only the scores strictly above the threshold
semantic_kept_strict(processed_query, found) ==
    semantic_results(processed_query, found,
        [k \in DOMAIN found |-> Less(similarity_threshold, found[k][2])])

semantic_execute_search_strict(processed_query) ==
    semantic_kept_strict(processed_query, semantic_found(processed_query))

\* similarity_score >= self._similarity_threshold
semantic_kept(processed_query, found) ==
    semantic_results(processed_query, found,
        [k \in DOMAIN found |-> Leq(similarity_threshold, found[k][2])])

semantic_execute_search(processed_query) ==
    semantic_kept(processed_query, semantic_found(processed_query))

execute_search(processed_query) ==
    CASE engine_type = "boolean" -> boolean_execute_search(processed_query)
      [] engine_type = "ranked" -> ranked_execute_search(processed_query)
      [] engine_type = "semantic" -> semantic_execute_search(processed_query)

\* 0.0 <= threshold <= 1.0
in_unit_interval(threshold) ==
    Leq(Whole(0), threshold) /\ Leq(threshold, Whole(1))

\* a ranked engine valid whatever its scoring method
validate_any_scoring ==
    CASE engine_type = "boolean" -> document_count > 0
      [] engine_type = "ranked" -> document_count > 0
      [] engine_type = "semantic" ->
            document_count > 0 /\ in_unit_interval(similarity_threshold)

\* a semantic engine valid whatever its threshold
validate_any_threshold ==
    CASE engine_type = "boolean" -> document_count > 0
      [] engine_type = "ranked" ->
            document_count > 0 /\ scoring_method \in {"tf", "combined"}
      [] engine_type = "semantic" -> document_count > 0

validate_search_capability ==
    CASE engine_type = "boolean" -> document_count > 0
      [] engine_type = "ranked" ->
            document_count > 0 /\ scoring_method \in {"tf", "combined"}
      [] engine_type = "semantic" ->
            document_count > 0 /\ in_unit_interval(similarity_threshold)

\* __class__.__name__.replace('SearchEngine', '').lower()
search_type == engine_type

-----------------------------------------------------------------------------
(* The inputs the engine is driven with *)

Doc(doc_id, title, text) == [doc_id |-> doc_id, title |-> title, text |-> text]

Documents ==
    {Doc("1", <<"A">>, <<"a", " ", "b">>),
     Doc("1", <<>>, <<"b">>),
     [doc_id |-> "2", title |-> <<"a">>]}

Queries == {<<" ">>, <<"a">>, <<"A", " ", " ", "b">>}

ScoringMethods == {"tf", "combined", "bm25"}

InitialThresholds == {Frac(1, 10), Frac(3, 2)}

Thresholds == {Frac(-1, 2), Whole(0), Whole(1)}

Pages == {1, 2}
PageSizes == {1, 2}

-----------------------------------------------------------------------------
(* src/src/search_system.py: the operations of one engine *)

Outcome(op, arg, status, ret) ==
    [op |-> op, arg |-> arg, status |-> status, ret |-> ret]

\* AbstractSearchEngine.__init__ and the subclass constructors
Init ==
    /\ engine_type \in {"boolean", "ranked", "semantic"}
    /\ document_collection = <<>>
    /\ search_history = <<>>
    /\ is_initialized = FALSE
    /\ inverted_index = [is_none |-> TRUE, dict |-> <<>>]
    /\ index_built = FALSE
    /\ scoring_method \in
           IF engine_type = "ranked" THEN ScoringMethods ELSE {"tf"}
    /\ similarity_threshold \in
           IF engine_type = "semantic" THEN InitialThresholds
           ELSE {Frac(1, 10)}
    /\ input = None
    /\ call = Outcome("__init__", None, "ok", None)

\* add_document putting the new document first
add_document_front(document) ==
    IF \E field \in {"doc_id", "title", "text"} : field \notin DOMAIN document
    THEN /\ call' = Outcome("add_document", document, "ValueError", None)
         /\ UNCHANGED <<engine_vars, input>>
    ELSE /\ Len(document_collection) < MaxDocs
         /\ document_collection' = <<document>> \o document_collection
         /\ is_initialized' = FALSE
         /\ call' = Outcome("add_document", document, "ok", None)
         /\ UNCHANGED <<engine_type, search_history, inverted_index,
                        index_built, scoring_method, similarity_threshold,
                        input>>

add_document(document) ==
    IF \E field \in {"doc_id", "title", "text"} : field \notin DOMAIN document
    THEN /\ call' = Outcome("add_document", document, "ValueError", None)
         /\ UNCHANGED <<engine_vars, input>>
    ELSE /\ Len(document_collection) < MaxDocs
         /\ document_collection' = Append(document_collection, document)
         /\ is_initialized' = FALSE
         /\ call' = Outcome("add_document", document, "ok", None)
         /\ UNCHANGED <<engine_type, search_history, inverted_index,
                        index_built, scoring_method, similarity_threshold,
                        input>>

\* Step 3 of search: the history record and the bundle returned
package_results(query, processed_query, raw_results) ==
    LET search_metadata ==
            [engine_id |-> engine_id, engine_name |-> name,
             search_type |-> search_type, original_query |-> query,
             processed_query |-> processed_query,
             document_count |-> document_count,
             raw_result_count |-> Len(raw_results)]
    IN  [search_record |->
             [query |-> query, processed_query |-> processed_query,
              result_count |-> Len(raw_results),
              metadata |-> search_metadata],
         bundle |->
             [results |-> raw_results, metadata |-> search_metadata,
              total_results |-> Len(raw_results)]]

\* search that records the query in lower case
execute_and_package_lowered(query, processed_query) ==
    package_results(lower(query), processed_query,
                    execute_search(processed_query))

\* Steps 2 and 3 of search
execute_and_package(query, processed_query) ==
    package_results(query, processed_query, execute_search(processed_query))

\* What a search that passed validation computes
search_body(query) == execute_and_package(query, process_query(query))

\* the index cache of a BooleanSearchEngine after execute_search
cache_after_search ==
    IF engine_type = "boolean" THEN index_cache_when_used
    ELSE [inverted_index |-> inverted_index, index_built |-> index_built]

\* a search that puts the scoring method back to the default
search_commit_default_scoring(op, query, body, cache) ==
    /\ Len(search_history) < MaxHistory
    /\ search_history' = Append(search_history, body.search_record)
    /\ inverted_index' = cache.inverted_index
    /\ index_built' = cache.index_built
    /\ scoring_method' = "tf"
    /\ call' = Outcome(op, query, "ok", body.ret)
    /\ UNCHANGED <<engine_type, document_collection, is_initialized,
                   similarity_threshold, input>>

\* the state a search that passed validation leaves
search_commit(op, query, body, cache) ==
    /\ Len(search_history) < MaxHistory
    /\ search_history' = Append(search_history, body.search_record)
    /\ inverted_index' = cache.inverted_index
    /\ index_built' = cache.index_built
    /\ call' = Outcome(op, query, "ok", body.ret)
    /\ UNCHANGED <<engine_type, document_collection, is_initialized,
                   scoring_method, similarity_threshold, input>>

search_ret(body) ==
    [search_record |-> body.search_record, ret |-> body.bundle]

\* search with the capability check left out
search_unguarded(query) ==
    search_commit("search", query, search_ret(search_body(query)),
                  cache_after_search)

search(query) ==
    IF ~validate_search_capability
    THEN /\ call' = Outcome("search", query, "RuntimeError", None)
         /\ UNCHANGED <<engine_vars, input>>
    ELSE search_commit("search", query, search_ret(search_body(query)),
                       cache_after_search)

\* clearing that drops only the latest record
clear_history_pop ==
    /\ search_history' = SubSeq(search_history, 1, Len(search_history) - 1)
    /\ call' = Outcome("clear_history", None, "ok", None)
    /\ UNCHANGED <<engine_type, document_collection, is_initialized,
                   inverted_index, index_built, scoring_method,
                   similarity_threshold, input>>

clear_history ==
    /\ search_history' = <<>>
    /\ call' = Outcome("clear_history", None, "ok", None)
    /\ UNCHANGED <<engine_type, document_collection, is_initialized,
                   inverted_index, index_built, scoring_method,
                   similarity_threshold, input>>

get_index_stats ==
    LET cache == index_cache_when_used
        index == cache.inverted_index.dict
        total_postings ==
            SumOver(DOMAIN index, [t \in DOMAIN index |-> Cardinality(index[t])])
    IN  /\ engine_type = "boolean"
        /\ inverted_index' = cache.inverted_index
        /\ index_built' = cache.index_built
        /\ call' = Outcome("get_index_stats", None, "ok",
                IF ~truthy(cache.inverted_index)
                THEN [term_count |-> 0, total_postings |-> 0]
                ELSE [term_count |-> Cardinality(DOMAIN index),
                      total_postings |-> total_postings,
                      avg_postings_per_term |->
                          Frac(total_postings, Cardinality(DOMAIN index))])
        /\ UNCHANGED <<engine_type, document_collection, search_history,
                       is_initialized, scoring_method, similarity_threshold,
                       input>>

\* storing the threshold before checking its range
set_similarity_threshold_unchecked(threshold) ==
    /\ engine_type = "semantic"
    /\ similarity_threshold' = threshold
    /\ call' = Outcome("set_similarity_threshold", threshold,
                       IF in_unit_interval(threshold) THEN "ok"
                       ELSE "ValueError", None)
    /\ UNCHANGED <<engine_type, document_collection, search_history,
                   is_initialized, inverted_index, index_built,
                   scoring_method, input>>

set_similarity_threshold(threshold) ==
    /\ engine_type = "semantic"
    /\ IF ~in_unit_interval(threshold)
       THEN /\ call' = Outcome("set_similarity_threshold", threshold,
                               "ValueError", None)
            /\ UNCHANGED <<engine_vars, input>>
       ELSE /\ similarity_threshold' = threshold
            /\ call' = Outcome("set_similarity_threshold", threshold, "ok",
                               None)
            /\ UNCHANGED <<engine_type, document_collection, search_history,
                           is_initialized, inverted_index, index_built,
                           scoring_method, input>>

\* The pagination part of RankedSearchEngine.search_with_pagination.  The
\* metadata dict of the bundle is the one the history record holds, so the
\* pagination entry written into it shows in the record as well.
merge_pagination(body, page, per_page, paginated) ==
    LET metadata ==
            [pagination |->
                [page |-> page, per_page |-> per_page,
                 total_pages |-> paginated.total_pages]]
                @@ body.bundle.metadata
    IN  [search_record |-> [body.search_record EXCEPT !.metadata = metadata],
         ret |-> [metadata |-> metadata] @@ paginated]

paginate_search(query, page, per_page, body) ==
    IF body.bundle.results = <<>>
    THEN search_ret(body)
    ELSE merge_pagination(body, page, per_page,
             filter_sort_paginate_results(body.bundle.results, split(query),
                                          page, per_page, "score", 0))

search_with_pagination(query, page, per_page) ==
    /\ engine_type = "ranked"
    /\ IF ~validate_search_capability
       THEN /\ call' = Outcome("search_with_pagination", query,
                               "RuntimeError", None)
            /\ UNCHANGED <<engine_vars, input>>
       ELSE search_commit("search_with_pagination", query,
                paginate_search(query, page, per_page, search_body(query)),
                cache_after_search)

Next ==
    \/ \E document \in Documents : add_document(document)
    \/ \E query \in Queries : search(query)
    \/ clear_history
    \/ get_index_stats
    \/ \E threshold \in Thresholds : set_similarity_threshold(threshold)
    \/ \E query \in Queries, page \in Pages, per_page \in PageSizes :
           search_with_pagination(query, page, per_page)

Spec == Init /\ [][Next]_vars

-----------------------------------------------------------------------------
(* Properties of one engine, checked under Spec *)

SearchOps == {"search", "search_with_pagination"}

\* the title and text tokens of a stored document
doc_tokens_of(document) ==
    set(split(lower(get(document, "title", <<>>) \o <<" ">>
                        \o get(document, "text", <<>>))))

\* a result record carries every field of the document
returns(results, document) ==
    \E k \in 1..Len(results) :
        \A field \in DOMAIN document :
            field \in DOMAIN results[k] /\ results[k][field] = document[field]

\* a result record without the tags of the engine that made it
core_of(result) ==
    [field \in DOMAIN result \
        {"match_type", "matched_terms", "scoring_method",
         "similarity_threshold", "semantic_features"} |-> result[field]]

cores_of(results) == [k \in 1..Len(results) |-> core_of(results[k])]

\* C1: a search of a BooleanSearchEngine returns every document of the
\* collection whose title and text tokens contain all the query terms, also
\* the documents added after the index was first built.
C1_IndexNeverStale ==
    (engine_type = "boolean" /\ call.op = "search" /\ call.status = "ok") =>
        \A i \in 1..Len(document_collection) :
            LET terms == set(split(normalize_query(call.arg)))
            IN  (terms # {} /\ terms \subseteq doc_tokens_of(document_collection[i]))
                    => returns(call.ret.results, document_collection[i])

\* C3: a search on an engine whose validate_search_capability() is false
\* fails with the capability error and changes nothing of the engine: not the
\* history, not the collection, not the index cache.
C3_InvalidEngineSearchFails ==
    [][(call'.op \in SearchOps /\ ~validate_search_capability) =>
          (call'.status = "RuntimeError" /\ UNCHANGED engine_vars)]_vars

C3_Witness ==
    /\ call.op = "search"
    /\ call.status = "RuntimeError"
    /\ document_count > 0

\* C4: every successful search appends exactly one record, with the query of
\* the call, behind the records already there; clear_history empties the
\* history; no other operation changes it.
C4_HistoryIsTheSearchLog ==
    [][IF call'.op \in SearchOps /\ call'.status = "ok"
       THEN /\ Len(search_history') = Len(search_history) + 1
            /\ SubSeq(search_history', 1, Len(search_history)) = search_history
            /\ search_history'[Len(search_history')].query = call'.arg
       ELSE IF call'.op = "clear_history"
            THEN search_history' = <<>>
            ELSE search_history' = search_history]_vars

C4_Witness ==
    /\ Len(search_history) = 2
    /\ search_history[1].query # search_history[2].query
    /\ call.op = "add_document"
    /\ call.status = "ok"

\* a search of a ready engine with a query that is empty once normalized
EmptyQuerySearch ==
    /\ call.op = "search"
    /\ normalize_query(call.arg) = <<>>
    /\ validate_search_capability

\* C5 as claimed: the search of an empty query returns an empty result list
\* on every engine variant, without raising.
C5_EmptyQueryGivesNoResults ==
    EmptyQuerySearch => (call.status = "ok" /\ call.ret.results = <<>>)

\* every document of the collection, in collection order, each with score 0
AllDocumentsAtZero(results) ==
    /\ Len(results) = document_count
    /\ \A k \in 1..Len(results) :
          /\ results[k].search_score = Whole(0)
          /\ \A field \in DOMAIN document_collection[k] :
                results[k][field] = document_collection[k][field]

\* C5 as amended: the search of an empty query never raises; the boolean
\* engine returns no result, the ranked engine returns every document with
\* score 0 in collection order, and the semantic engine returns no result
\* when its threshold is above 0 and every document with score 0 when its
\* threshold is 0.
C5_EmptyQueryResults ==
    EmptyQuerySearch =>
        /\ call.status = "ok"
        /\ CASE engine_type = "boolean" -> call.ret.results = <<>>
             [] engine_type = "ranked" -> AllDocumentsAtZero(call.ret.results)
             [] engine_type = "semantic" ->
                    IF Less(Whole(0), similarity_threshold)
                    THEN call.ret.results = <<>>
                    ELSE AllDocumentsAtZero(call.ret.results)

C5_Witness ==
    /\ EmptyQuerySearch
    /\ engine_type = "ranked"
    /\ Len(call.ret.results) = 2
    /\ call.ret.results[1].title # call.ret.results[2].title

C9_ThresholdSetter ==
    /\ [][call'.op = "set_similarity_threshold" =>
            IF 0 <= call'.arg[1] /\ call'.arg[1] <= call'.arg[2]
            THEN call'.status = "ok" /\ similarity_threshold' = call'.arg
            ELSE /\ call'.status = "ValueError"
                 /\ similarity_threshold' = similarity_threshold]_vars
    /\ []((engine_type = "semantic" /\ call.op = "search" /\ call.status = "ok") =>
            LET scores == scores_of(normalize_query(call.arg),
                                    documents_text_of(document_collection))
            IN  /\ \A k \in 1..Len(call.ret.results) :
                      Leq(similarity_threshold, call.ret.results[k].search_score)
                /\ Len(call.ret.results) =
                      Cardinality({i \in 1..Len(scores) :
                                      Leq(similarity_threshold, scores[i][2])}))

C9_Witness ==
    /\ call.op = "set_similarity_threshold"
    /\ call.status = "ValueError"
    /\ similarity_threshold = Whole(0)
    /\ search_history # <<>>
    /\ search_history[Len(search_history)].processed_query.similarity_threshold
           = Whole(0)
    /\ search_history[Len(search_history)].result_count > 0

-----------------------------------------------------------------------------
(* src/src/library_name.py called directly: the retrieval functions *)

\* no engine: the library functions are called on their own
NoEngine ==
    /\ engine_type = "none"
    /\ document_collection = <<>>
    /\ search_history = <<>>
    /\ is_initialized = FALSE
    /\ inverted_index = [is_none |-> TRUE, dict |-> <<>>]
    /\ index_built = FALSE
    /\ scoring_method = "tf"
    /\ similarity_threshold = Frac(1, 10)

LibChars == {"a", "B", " "}

LibQueries == Str(MaxQueryLen, LibChars)

LibTexts == {<<>>, <<"a">>, <<"B", " ", "a", " ", "a">>}

LibDocuments == UNION {[1..n -> LibTexts] : n \in 0..MaxLibDocs}

TopKs == -1..(MaxLibDocs + 1)

InitLib ==
    /\ NoEngine
    /\ input \in [query : LibQueries, documents : LibDocuments]
    /\ call = Outcome("none", None, "ok", None)

call_build_inverted_index ==
    /\ call' = Outcome("build_inverted_index", None, "ok",
                       build_inverted_index(input.documents))
    /\ UNCHANGED <<engine_vars, input>>

call_boolean_retrieval ==
    /\ call' = Outcome("boolean_retrieval", None, "ok",
                       boolean_retrieval(input.query,
                           build_inverted_index(input.documents)))
    /\ UNCHANGED <<engine_vars, input>>

call_rank_documents(top_k) ==
    /\ call' = Outcome("rank_documents", top_k, "ok",
                       rank_documents(input.query, input.documents, top_k))
    /\ UNCHANGED <<engine_vars, input>>

call_semantic_search(top_k) ==
    /\ call' = Outcome("semantic_search", top_k, "ok",
                       semantic_search(input.query, input.documents, None,
                                       top_k))
    /\ UNCHANGED <<engine_vars, input>>

NextLib ==
    \/ call_build_inverted_index
    \/ call_boolean_retrieval
    \/ \E top_k \in TopKs : call_rank_documents(top_k)
    \/ \E top_k \in TopKs : call_semantic_search(top_k)

SpecLib == InitLib /\ [][NextLib]_vars

-----------------------------------------------------------------------------
(* Properties of the retrieval functions, checked under SpecLib *)

\* the places <<i, j>> of the whitespace-delimited tokens of s
token_spans(s) ==
    {span \in (1..Len(s)) \X (1..Len(s)) :
        /\ span[1] <= span[2]
        /\ \A k \in span[1]..span[2] : s[k] \notin Whitespace
        /\ span[1] = 1 \/ s[span[1] - 1] \in Whitespace
        /\ span[2] = Len(s) \/ s[span[2] + 1] \in Whitespace}

\* the lowercased tokens of s, as a set
terms_of(s) ==
    {SubSeq(lower(s), span[1], span[2]) : span \in token_spans(s)}

\* C2: boolean retrieval over the index of D returns exactly the positions
\* of the documents that have every lowercased term of the query among
\* their tokens, and nothing for a query without terms.
C2_BooleanRetrievalIsAnd ==
    call.op = "boolean_retrieval" =>
        call.ret =
            IF terms_of(input.query) = {} THEN {}
            ELSE {i - 1 : i \in {j \in 1..Len(input.documents) :
                      terms_of(input.query) \subseteq terms_of(input.documents[j])}}

C2_Witness ==
    /\ call.op = "boolean_retrieval"
    /\ Cardinality(terms_of(input.query)) = 2
    /\ call.ret # {}
    /\ Cardinality(call.ret) < Len(input.documents)

\* the pair at rank k of a ranking: the one with exactly k - 1 pairs ahead of
\* it, a pair being ahead when its score is higher, or equal with a smaller
\* position
ranked_at(pairs, k) ==
    CHOOSE p \in Range(pairs) :
        Cardinality({q \in Range(pairs) :
            \/ Less(p[2], q[2])
            \/ (q[2] = p[2] /\ q[1] < p[1])}) = k - 1

expected_score(query, document) ==
    LET spans == token_spans(document)
        hits == {span \in spans :
                    SubSeq(lower(document), span[1], span[2]) \in terms_of(query)}
    IN  IF spans = {} THEN Whole(0)
        ELSE Frac(Cardinality(hits), Cardinality(spans))

\* C8: every score rank_documents returns is the number of occurrences of
\* the distinct query terms among the document's tokens divided by the
\* number of tokens, 0 for a document without tokens; equal documents get
\* equal scores wherever they stand.
C8_ScoreIsTermFrequency ==
    (call.op = "rank_documents" /\ call.arg >= Len(input.documents)) =>
        /\ call.status = "ok"
        /\ Len(call.ret) = Len(input.documents)
        /\ \A k \in 1..Len(call.ret) :
              call.ret[k][2] =
                  expected_score(input.query, input.documents[call.ret[k][1] + 1])
        /\ \A k, l \in 1..Len(call.ret) :
              input.documents[call.ret[k][1] + 1]
                      = input.documents[call.ret[l][1] + 1]
                  => call.ret[k][2] = call.ret[l][2]

C8_Witness ==
    /\ call.op = "rank_documents"
    /\ call.arg >= Len(input.documents)
    /\ Len(split(lower(input.query))) > Cardinality(terms_of(input.query))
    /\ \E k \in 1..Len(call.ret) : call.ret[k][2] = Frac(2, 3)
    /\ \E k \in 1..Len(call.ret) :
          input.documents[call.ret[k][1] + 1] = <<>> /\ call.ret[k][2] = Whole(0)

-----------------------------------------------------------------------------
(* src/src/library_name.py called directly: filter_sort_paginate_results *)

Items ==
    {[doc_id |-> "1", title |-> <<"A">>, text |-> <<"a">>],
     [doc_id |-> "2", title |-> <<"b">>, text |-> <<"a", "b">>,
      date |-> <<"2">>],
     [doc_id |-> "3", title |-> <<"a">>, text |-> <<"a", "a", "a">>,
      date |-> <<"1", "0">>]}

ItemLists == UNION {[1..n -> Items] : n \in 0..MaxItems}

TermLists == {<<>>, <<<<"a", "a">>>>, <<<<"A">>, <<"b">>>>}

PipelinePages == 1..(MaxItems + 1)

SortKeys == {"score", "date", "title"}

MinScores == {0, 4}

InitPipeline ==
    /\ NoEngine
    /\ input \in [results : ItemLists, query_terms : TermLists]
    /\ call = Outcome("none", None, "ok", None)

call_filter_sort_paginate_results(page, per_page, sort_by, min_score) ==
    /\ call' = Outcome("filter_sort_paginate_results",
                       [page |-> page, per_page |-> per_page,
                        sort_by |-> sort_by, min_score |-> min_score],
                       "ok",
                       filter_sort_paginate_results(input.results,
                           input.query_terms, page, per_page, sort_by,
                           min_score))
    /\ UNCHANGED <<engine_vars, input>>

NextPipeline ==
    \E page \in PipelinePages, per_page \in PageSizes, sort_by \in SortKeys,
       min_score \in MinScores :
        call_filter_sort_paginate_results(page, per_page, sort_by, min_score)

SpecPipeline == InitPipeline /\ [][NextPipeline]_vars

without_repeats(query) ==
    LET tokens == split(lower(query))
        RECURSIVE firsts(_)
        firsts(k) ==
            IF k > Len(tokens) THEN <<>>
            ELSE IF \E e \in 1..(k - 1) : tokens[e] = tokens[k]
                 THEN firsts(k + 1)
                 ELSE <<tokens[k]>> \o firsts(k + 1)
    IN  join(firsts(1))

HasRepeat ==
    Len(split(lower(input.query))) > Cardinality(terms_of(input.query))

\* C23: rank_documents gives the same pairs, and boolean_retrieval the same
\* set, for a query as for the query with its repeated terms left out.
C23_RepeatedTermsAreHarmless ==
    /\ call.op = "rank_documents" =>
           call.ret = rank_documents(without_repeats(input.query),
                                     input.documents, call.arg)
    /\ call.op = "boolean_retrieval" =>
           call.ret = boolean_retrieval(without_repeats(input.query),
                          build_inverted_index(input.documents))

\* a query that repeats a term and a document scored for it once
C23_Witness ==
    /\ call.op = "rank_documents"
    /\ input.query = <<"a", " ", "a">>
    /\ HasRepeat
    /\ call.arg = 1
    /\ call.ret = <<<<0, <<2, 3>>>>>>

-----------------------------------------------------------------------------
(* Properties of filter_sort_paginate_results, checked under SpecPipeline *)

\* the results that pass the filter, in input order, each with its score
filtered_of(call_arg) ==
    score_results(input.results, input.query_terms, call_arg.min_score)

has_date(item) == "date" \in DOMAIN item

date_of(item) == IF has_date(item) THEN item.date ELSE <<>>

\* the place in items of the item that stands at rank k when items is sorted
\* by date, latest first, equal dates in the order of items
place_by_date(items, k) ==
    CHOOSE p \in 1..Len(items) :
        Cardinality({q \in 1..Len(items) :
            \/ str_gt(date_of(items[q]), date_of(items[p]))
            \/ (date_of(items[q]) = date_of(items[p]) /\ q < p)}) = k - 1

by_date_descending(items) ==
    [k \in 1..Len(items) |-> items[place_by_date(items, k)]]

\* the page the call returns is the page of this list
returns_page_of(list) ==
    call.ret.results = paginate(list, call.arg.page, call.arg.per_page).results

DateSortCall ==
    call.op = "filter_sort_paginate_results" /\ call.arg.sort_by = "date"

\* C10 as claimed: with sort_by = date the filtered items are sorted by date
\* descending only if every one of them has a date, and keep their input
\* order if one of them has none.
C10_DateSortOnlyIfAllDated ==
    DateSortCall =>
        LET filtered == filtered_of(call.arg)
        IN  IF \A i \in 1..Len(filtered) : has_date(filtered[i])
            THEN returns_page_of(by_date_descending(filtered))
            ELSE returns_page_of(filtered)

\* C10 as amended: with sort_by = date the filtered items are sorted by date
\* descending, an item without a date counting as the empty date and so
\* coming last, if at least one of them has a date; they keep their input
\* order if none of them has a date.
C10_DateSortIfAnyDated ==
    DateSortCall =>
        LET filtered == filtered_of(call.arg)
        IN  IF \E i \in 1..Len(filtered) : has_date(filtered[i])
            THEN returns_page_of(by_date_descending(filtered))
            ELSE returns_page_of(filtered)

C10_Witness ==
    /\ DateSortCall
    /\ Len(call.ret.results) = 2
    /\ Len(input.results) = 2
    /\ ~has_date(input.results[1])
    /\ has_date(input.results[2])
    /\ has_date(call.ret.results[1])
    /\ ~has_date(call.ret.results[2])

\* the filtered results in the order the call leaves them
sorted_of(call_arg) == sort_results(filtered_of(call_arg), call_arg.sort_by)

\* the least number of pages of per_page items that hold total items
pages_for(total, per_page) ==
    CHOOSE m \in 0..total : /\ m * per_page >= total
                            /\ \A l \in 0..total : l * per_page >= total => m <= l

PipelineCall == call.op = "filter_sort_paginate_results"

\* C11: the call returns the items start+1 .. start+per_page of the filtered
\* sorted list, start = (page-1)*per_page, as far as the list reaches (none when
\* start >= total), and reports total_results = the number of filtered items
\* and total_pages = ceil(total_results / per_page), whatever the page.
C11_PaginationSlice ==
    PipelineCall =>
        LET list == sorted_of(call.arg)
            total == Len(list)
            start == (call.arg.page - 1) * call.arg.per_page
            on_page == {k \in 1..total : start < k /\ k <= start + call.arg.per_page}
        IN  /\ Len(call.ret.results) = Cardinality(on_page)
            /\ \A k \in on_page : call.ret.results[k - start] = list[k]
            /\ (start >= total => call.ret.results = <<>>)
            /\ call.ret.total_results = Len(filtered_of(call.arg))
            /\ call.ret.total_pages = pages_for(total, call.arg.per_page)
            /\ call.ret.page = call.arg.page
            /\ call.ret.per_page = call.arg.per_page

\* the last page, holding one item of three, and a page beyond it
C11_Witness ==
    /\ PipelineCall
    /\ call.ret.total_results = 3
    /\ call.arg.per_page = 2
    /\ call.ret.total_pages = 2
    /\ \/ call.arg.page = 2 /\ Len(call.ret.results) = 1
       \/ call.arg.page = 3 /\ call.ret.results = <<>>

\* the places in s where sub begins
starts_of(s, sub) ==
    {i \in 1..(Len(s) + 1) :
        /\ i + Len(sub) - 1 <= Len(s)
        /\ \A k \in 1..Len(sub) : s[i + k - 1] = sub[k]}

\* the occurrences of sub in s, counted without overlap as str.count counts
\* them: the most places of starts_of(s, sub) that are Len(sub) apart
occurrences(s, sub) ==
    LET apart(P) ==
            \A i \in P, j \in P : i < j => j - i >= Len(sub)
        sizes == {Cardinality(P) : P \in {Q \in SUBSET starts_of(s, sub) : apart(Q)}}
    IN  CHOOSE n \in sizes : \A m \in sizes : m <= n

\* twice the occurrences in the title plus the occurrences in the text, case
\* ignored, summed over the places of query_terms
expected_pipeline_score(item, query_terms) ==
    SumOver(DOMAIN query_terms,
            [t \in DOMAIN query_terms |->
                2 * occurrences(lower(item.title), lower(query_terms[t]))
                    + occurrences(lower(item.text), lower(query_terms[t]))])

\* the places of input.results whose score meets min_score
kept_places(min_score) ==
    {i \in DOMAIN input.results :
        expected_pipeline_score(input.results[i], input.query_terms)
            >= min_score}

\* C12: a document is kept iff its score (twice the title occurrences plus the
\* text occurrences of every query term, case ignored) is >= min_score, each
\* kept document carries that score, and with sort_by = score the kept
\* documents are in non-increasing order of score.
C12_ScoreFilterAndOrder ==
    PipelineCall =>
        LET list == sorted_of(call.arg)
            kept == kept_places(call.arg.min_score)
            without_score(item) ==
                [f \in DOMAIN item \ {"score"} |-> item[f]]
        IN  /\ Len(list) = Cardinality(kept)
            /\ \A i \in kept :
                   Cardinality({k \in DOMAIN list :
                       without_score(list[k]) = input.results[i]})
                   = Cardinality({j \in kept :
                       input.results[j] = input.results[i]})
            /\ \A k \in DOMAIN list :
                   list[k]["score"] =
                       expected_pipeline_score(without_score(list[k]),
                                               input.query_terms)
            /\ call.arg.sort_by = "score" =>
                   \A k \in 1..(Len(list) - 1) :
                       list[k]["score"] >= list[k + 1]["score"]
            /\ returns_page_of(list)

\* a title match counted twice, a document dropped, and the order changed
C12_Witness ==
    /\ PipelineCall
    /\ call.arg.sort_by = "score"
    /\ call.arg.min_score = 4
    /\ Len(input.results) = 3
    /\ input.query_terms = <<<<"A">>, <<"b">>>>
    /\ call.ret.total_results = 2
    /\ Len(call.ret.results) = 2
    /\ call.ret.results[1]["score"] = 5
    /\ call.ret.results[2]["score"] = 4
    /\ call.ret.results[1].doc_id = input.results[3].doc_id
    /\ call.ret.results[2].doc_id = input.results[2].doc_id

-----------------------------------------------------------------------------
(* Properties of the document collection of one engine, checked under Spec *)

\* C13: the collection holds no two documents with the same doc_id, and every
\* stored document has a non-empty doc_id, title and text.
C13_DocumentsUniqueAndNonEmpty ==
    /\ \A i \in DOMAIN document_collection, j \in DOMAIN document_collection :
           i # j => document_collection[i].doc_id # document_collection[j].doc_id
    /\ \A i \in DOMAIN document_collection :
           /\ document_collection[i].doc_id # ""
           /\ document_collection[i].title # <<>>
           /\ document_collection[i].text # <<>>

\* C17: add_document of a document without doc_id, title or text fails with
\* ValueError and leaves the collection as it was; any other add_document
\* puts the document behind the documents already there, which stay as they
\* were and in their order, and leaves the search history as it was.
C17_AddDocumentAppendsOne ==
    [][call'.op = "add_document" =>
          IF {"doc_id", "title", "text"} \subseteq DOMAIN call'.arg
          THEN /\ call'.status = "ok"
               /\ Len(document_collection') = Len(document_collection) + 1
               /\ \A i \in DOMAIN document_collection :
                      document_collection'[i] = document_collection[i]
               /\ document_collection'[Len(document_collection')] = call'.arg
               /\ search_history' = search_history
          ELSE /\ call'.status = "ValueError"
               /\ document_collection' = document_collection
               /\ search_history' = search_history]_vars

\* a second, different document added after a search
C17_Witness ==
    /\ call.op = "add_document"
    /\ call.status = "ok"
    /\ Len(document_collection) = 2
    /\ document_collection[1] # document_collection[2]
    /\ document_collection[2] = call.arg
    /\ search_history # <<>>

RankedReady ==
    /\ document_collection # <<>>
    /\ scoring_method = "tf" \/ scoring_method = "combined"

\* C14: a ranked engine is valid iff it has documents and its scoring method
\* is tf or combined; a search on an invalid ranked engine fails and leaves the
\* engine as it was, a search on a valid one succeeds; no step changes the
\* scoring method.
C14_RankedScoringMethodValidity ==
    /\ [](engine_type = "ranked" => (validate_search_capability <=> RankedReady))
    /\ [][(engine_type = "ranked" /\ call'.op \in SearchOps) =>
             IF RankedReady
             THEN call'.status = "ok"
             ELSE call'.status = "RuntimeError" /\ UNCHANGED engine_vars]_vars
    /\ [][scoring_method' = scoring_method]_vars

\* a search refused for the scoring method alone
C14_Witness ==
    /\ engine_type = "ranked"
    /\ scoring_method = "bm25"
    /\ document_collection # <<>>
    /\ call.op \in SearchOps
    /\ call.status = "RuntimeError"
    /\ search_history = <<>>

\* 0 <= similarity_threshold <= 1 on the fraction itself
ThresholdInRange ==
    /\ similarity_threshold[1] >= 0
    /\ similarity_threshold[1] <= similarity_threshold[2]

\* C15: a semantic engine is valid iff it has documents and its threshold is
\* in [0, 1], with no embedding model at hand; a boolean engine is valid iff it
\* has documents; the last search succeeded iff the engine is valid.
C15_SemanticAndBooleanValidity ==
    /\ engine_type = "semantic" =>
           /\ validate_search_capability
                  <=> (document_collection # <<>> /\ ThresholdInRange)
           /\ call.op = "search" =>
                  (call.status = "ok"
                      <=> (document_collection # <<>> /\ ThresholdInRange))
    /\ engine_type = "boolean" =>
           /\ validate_search_capability <=> document_collection # <<>>
           /\ call.op = "search" =>
                  (call.status = "ok" <=> document_collection # <<>>)

\* a semantic engine with documents refused for its threshold
C15_Witness ==
    /\ engine_type = "semantic"
    /\ document_collection # <<>>
    /\ similarity_threshold = Frac(3, 2)
    /\ call.op = "search"
    /\ call.status = "RuntimeError"

\* C25: a record of a boolean search has score 1 and match type boolean_exact;
\* a record of a ranked search has match type ranked_relevance and a score
\* from 0 to 1; a record of a semantic search has match type
\* semantic_similarity and a score that is at least the threshold the engine
\* had when it searched, which is the threshold the record carries.
C25_ScoresAndMatchTypes ==
    (call.op = "search" /\ call.status = "ok") =>
        \A k \in DOMAIN call.ret.results :
            LET record == call.ret.results[k]
            IN  /\ engine_type = "boolean" =>
                       /\ record.search_score = Whole(1)
                       /\ record.match_type = "boolean_exact"
                /\ engine_type = "ranked" =>
                       /\ record.match_type = "ranked_relevance"
                       /\ Leq(Whole(0), record.search_score)
                       /\ Leq(record.search_score, Whole(1))
                /\ engine_type = "semantic" =>
                       /\ record.match_type = "semantic_similarity"
                       /\ record.similarity_threshold = similarity_threshold
                       /\ Leq(similarity_threshold, record.search_score)

\* a semantic search that keeps the document scored 2/3 and leaves out the
\* one scored 0, under the threshold 1/10
C25_Witness ==
    /\ engine_type = "semantic"
    /\ call.op = "search"
    /\ call.status = "ok"
    /\ similarity_threshold = Frac(1, 10)
    /\ document_count = 2
    /\ Len(call.ret.results) = 1
    /\ call.ret.results[1].search_score = Frac(2, 3)
    /\ call.ret.results[1].match_type = "semantic_similarity"

\* a record of a page without the score filter_sort_paginate_results added
without_score(record) ==
    [field \in DOMAIN record \ {"score"} |-> record[field]]

\* C28: page number page of search_with_pagination holds the records at
\* places (page - 1) * per_page + 1 to page * per_page of the list search
\* returns for the same query, in the order of that list, so that the pages
\* put one after the other are that list.
C28_PagesFollowTheRanking ==
    (call.op = "search_with_pagination" /\ call.status = "ok"
        /\ "page" \in DOMAIN call.ret) =>
        [k \in DOMAIN call.ret.results |-> without_score(call.ret.results[k])]
            = slice(search_body(call.arg).bundle.results,
                    (call.ret.page - 1) * call.ret.per_page,
                    call.ret.page * call.ret.per_page)

\* C29: the bundle a successful search returns and the history record it
\* appends agree: total_results, the length of results, raw_result_count of
\* the metadata and result_count of the newest record are one number,
\* document_count of the metadata is the size of the collection, and
\* original_query of the metadata and query of the record are the query as
\* it was passed in.
C29_BundleAndRecordAgree ==
    (call.op = "search" /\ call.status = "ok") =>
        LET record == search_history[Len(search_history)]
        IN  /\ call.ret.total_results = Len(call.ret.results)
            /\ call.ret.metadata.raw_result_count = Len(call.ret.results)
            /\ record.result_count = Len(call.ret.results)
            /\ call.ret.metadata.document_count = Len(document_collection)
            /\ call.ret.metadata.original_query = call.arg
            /\ record.query = call.arg
            /\ record.metadata = call.ret.metadata

\* the second search of an engine of two documents, for a query in capitals
\* with a run of spaces, which finds one of them
C29_Witness ==
    /\ call.op = "search"
    /\ call.status = "ok"
    /\ call.arg = <<"A", " ", " ", "b">>
    /\ Len(search_history) = 2
    /\ Len(document_collection) = 2
    /\ call.ret.total_results = 1
    /\ call.ret.metadata.original_query = <<"A", " ", " ", "b">>

\* a step of search leaves the document collection and so document_count, the
\* scoring method and the similarity threshold as they were
SearchLeavesEngine ==
    call'.op = "search" =>
        /\ document_collection' = document_collection
        /\ document_count' = document_count
        /\ scoring_method' = scoring_method
        /\ similarity_threshold' = similarity_threshold

\* a successful search right after a successful search of the same query
\* returns an equal result list
RepeatedSearchAgrees ==
    (call'.op = "search" /\ call.op = "search" /\ call.status = "ok"
        /\ call'.status = "ok" /\ call'.arg = call.arg) =>
        call'.ret.results = call.ret.results

\* records i and i + 1 of the history are of searches of one query with no
\* document added between them
SameQueryAndCollection(i) ==
    /\ search_history[i].query = search_history[i + 1].query
    /\ search_history[i].metadata.document_count
           = search_history[i + 1].metadata.document_count

\* C30 as claimed: a call of search, whether it succeeds or fails, leaves the
\* document collection, document_count, the scoring method and the similarity
\* threshold as they were, and of two searches of one query, one after the
\* other with no add_document between them, the second finds what the first
\* found.
C30_SearchesAgreeUnlessDocumentAdded ==
    /\ [][SearchLeavesEngine /\ RepeatedSearchAgrees]_vars
    /\ [](\A i \in 1..(Len(search_history) - 1) :
              SameQueryAndCollection(i) =>
                  search_history[i].result_count
                      = search_history[i + 1].result_count)

\* C30 as the code has it: the same, for two searches with neither
\* add_document nor set_similarity_threshold between them, so that both were
\* processed under one threshold.
C30_SearchesAgreeUnlessThresholdSet ==
    /\ [][SearchLeavesEngine /\ RepeatedSearchAgrees]_vars
    /\ [](\A i \in 1..(Len(search_history) - 1) :
              (/\ SameQueryAndCollection(i)
               /\ search_history[i].processed_query
                      = search_history[i + 1].processed_query) =>
                  search_history[i].result_count
                      = search_history[i + 1].result_count)

\* the second of two searches of one query by a semantic engine of two
\* documents whose threshold was set to 0 before the first: both find both
C30_Witness ==
    /\ engine_type = "semantic"
    /\ call.op = "search"
    /\ call.status = "ok"
    /\ call.arg = <<"a">>
    /\ Len(search_history) = 2
    /\ SameQueryAndCollection(1)
    /\ search_history[1].processed_query.similarity_threshold = Whole(0)
    /\ search_history[2].processed_query.similarity_threshold = Whole(0)
    /\ search_history[1].metadata.document_count = 2
    /\ search_history[1].result_count = 2
    /\ Len(call.ret.results) = 2

-----------------------------------------------------------------------------
(* src/src/search_system.py: SearchEngineFactory *)

boolean_name == <<"b", "o", "o", "l", "e", "a", "n">>
ranked_name == <<"r", "a", "n", "k", "e", "d">>
semantic_name == <<"s", "e", "m", "a", "n", "t", "i", "c">>

EngineTypeNames ==
    {boolean_name,
     <<"B", "o", "o", "l", "e", "a", "n">>,
     <<"R", "A", "N", "K", "E", "D">>,
     semantic_name,
     <<"s", "e", "m", "a", "n", "t", "i", "c", " ">>,
     <<"f", "u", "z", "z", "y">>}

EngineIds == {<<"e", "1">>, <<" ">>}

EngineNames == {<<"E">>, <<>>}

FactoryKwargs ==
    {<<>>,
     [scoring_method |-> "combined"],
     [scoring_method |-> "bm25"],
     [similarity_threshold |-> Frac(1, 2)],
     [scoring_method |-> "combined", similarity_threshold |-> Frac(3, 2)]}

InitFactory ==
    /\ NoEngine
    /\ input = None
    /\ call = Outcome("none", None, "ok", None)

\* the constructors: the fields of a new engine of the class
construct(class, engine_id_arg, name_arg, scoring_method_arg, threshold_arg, arg) ==
    IF strip(engine_id_arg) = <<>> \/ strip(name_arg) = <<>>
    THEN /\ call' = Outcome("create_engine", arg, "ValueError", None)
         /\ UNCHANGED <<engine_vars, input>>
    ELSE /\ engine_type' = class
         /\ document_collection' = <<>>
         /\ search_history' = <<>>
         /\ is_initialized' = FALSE
         /\ inverted_index' = [is_none |-> TRUE, dict |-> <<>>]
         /\ index_built' = FALSE
         /\ scoring_method' = scoring_method_arg
         /\ similarity_threshold' = threshold_arg
         /\ call' = Outcome("create_engine", arg, "ok",
                            [class |-> class, engine_id |-> engine_id_arg,
                             name |-> name_arg])
         /\ UNCHANGED input

\* create_engine comparing the type name as it is written
create_engine_case_sensitive(engine_type_arg, engine_id_arg, name_arg, kwargs) ==
    LET arg == [engine_type |-> engine_type_arg, engine_id |-> engine_id_arg,
                name |-> name_arg, kwargs |-> kwargs]
    IN  IF engine_type_arg = boolean_name
        THEN construct("boolean", engine_id_arg, name_arg, "tf", Frac(1, 10),
                       arg)
        ELSE IF engine_type_arg = ranked_name
        THEN construct("ranked", engine_id_arg, name_arg,
                       get(kwargs, "scoring_method", "tf"), Frac(1, 10), arg)
        ELSE IF engine_type_arg = semantic_name
        THEN construct("semantic", engine_id_arg, name_arg, "tf",
                       get(kwargs, "similarity_threshold", Frac(1, 10)), arg)
        ELSE /\ call' = Outcome("create_engine", arg, "ValueError", None)
             /\ UNCHANGED <<engine_vars, input>>

create_engine(engine_type_arg, engine_id_arg, name_arg, kwargs) ==
    LET arg == [engine_type |-> engine_type_arg, engine_id |-> engine_id_arg,
                name |-> name_arg, kwargs |-> kwargs]
    IN  IF lower(engine_type_arg) = boolean_name
        THEN construct("boolean", engine_id_arg, name_arg, "tf", Frac(1, 10),
                       arg)
        ELSE IF lower(engine_type_arg) = ranked_name
        THEN construct("ranked", engine_id_arg, name_arg,
                       get(kwargs, "scoring_method", "tf"), Frac(1, 10), arg)
        ELSE IF lower(engine_type_arg) = semantic_name
        THEN construct("semantic", engine_id_arg, name_arg, "tf",
                       get(kwargs, "similarity_threshold", Frac(1, 10)), arg)
        ELSE /\ call' = Outcome("create_engine", arg, "ValueError", None)
             /\ UNCHANGED <<engine_vars, input>>

get_supported_types ==
    /\ call' = Outcome("get_supported_types", None, "ok",
                       <<boolean_name, ranked_name, semantic_name>>)
    /\ UNCHANGED <<engine_vars, input>>

NextFactory ==
    \/ \E engine_type_arg \in EngineTypeNames, engine_id_arg \in EngineIds,
          name_arg \in EngineNames, kwargs \in FactoryKwargs :
           create_engine(engine_type_arg, engine_id_arg, name_arg, kwargs)
    \/ get_supported_types

SpecFactory == InitFactory /\ [][NextFactory]_vars

-----------------------------------------------------------------------------
(* Properties of SearchEngineFactory, checked under SpecFactory *)

\* the two names are the same but for the case of their letters
same_ignoring_case(a, b) ==
    /\ Len(a) = Len(b)
    /\ \A i \in DOMAIN a :
           \/ a[i] = b[i]
           \/ \E l \in DOMAIN UpperCase :
                  {a[i], b[i]} = {UpperCase[l], LowerCase[l]}

\* the class create_engine makes for a type name, "none" for an unknown name
variant_of(type_name) ==
    IF same_ignoring_case(type_name, boolean_name) THEN "boolean"
    ELSE IF same_ignoring_case(type_name, ranked_name) THEN "ranked"
    ELSE IF same_ignoring_case(type_name, semantic_name) THEN "semantic"
    ELSE "none"

\* the engine made is of the class named, with the id and name given and the
\* scoring method or threshold given (tf and 0.1 when not given)
created_as_asked ==
    LET a == call'.arg
        class == variant_of(a.engine_type)
    IN  /\ call'.status = "ok"
        /\ call'.ret = [class |-> class, engine_id |-> a.engine_id,
                        name |-> a.name]
        /\ engine_type' = class
        /\ document_collection' = <<>>
        /\ search_history' = <<>>
        /\ class = "ranked" =>
               scoring_method' =
                   IF "scoring_method" \in DOMAIN a.kwargs
                   THEN a.kwargs.scoring_method ELSE "tf"
        /\ class = "semantic" =>
               similarity_threshold' =
                   IF "similarity_threshold" \in DOMAIN a.kwargs
                   THEN a.kwargs.similarity_threshold ELSE <<1, 10>>

not_created == call'.status = "ValueError" /\ UNCHANGED engine_vars

is_blank(s) == \A i \in DOMAIN s : s[i] \in Whitespace

\* every name get_supported_types lists is a name create_engine knows
supported_names_known ==
    call'.op = "get_supported_types" =>
        /\ Range(call'.ret) = {boolean_name, ranked_name, semantic_name}
        /\ \A i \in DOMAIN call'.ret : variant_of(call'.ret[i]) # "none"

\* C16 as claimed: create_engine fails with ValueError and creates nothing for
\* every type name other than boolean, ranked and semantic (case ignored), and
\* for each of these names returns the engine of that class with the given
\* id, name and scoring method or threshold.
C16_FactoryCreatesForKnownNames ==
    [][/\ supported_names_known
       /\ call'.op = "create_engine" =>
              IF variant_of(call'.arg.engine_type) = "none"
              THEN not_created
              ELSE created_as_asked]_vars

\* C16 as amended: as claimed when the id and the name given are not blank;
\* with a blank id or name create_engine fails with ValueError and creates
\* nothing, whatever the type name.
C16_FactoryCreatesUnlessBlank ==
    [][/\ supported_names_known
       /\ call'.op = "create_engine" =>
              IF variant_of(call'.arg.engine_type) = "none"
              THEN not_created
              ELSE IF is_blank(call'.arg.engine_id) \/ is_blank(call'.arg.name)
              THEN not_created
              ELSE created_as_asked]_vars

\* a ranked engine made from a name in capitals, with the scoring method given
C16_Witness ==
    /\ call.op = "create_engine"
    /\ call.status = "ok"
    /\ call.arg.engine_type = <<"R", "A", "N", "K", "E", "D">>
    /\ call.arg.kwargs = [scoring_method |-> "combined"]
    /\ engine_type = "ranked"
    /\ scoring_method = "combined"
    /\ call.ret.engine_id = <<"e", "1">>

-----------------------------------------------------------------------------
(* src/src/search_system.py: get_documents and what its caller does with the
   list it returns.  list.copy() makes a new list of the same dict objects:
   input.returned[k] is [ref |-> i] for the dict stored at place i of the
   collection, [value |-> d] for a dict the caller put in the list itself. *)

NewTitles == {<<"z">>}

get_documents ==
    /\ input' = [returned |->
                    [i \in DOMAIN document_collection |-> [ref |-> i]]]
    /\ call' = Outcome("get_documents", None, "ok", document_collection)
    /\ UNCHANGED engine_vars

\* docs.append(document) on the returned list
caller_append(document) ==
    /\ input # None
    /\ Len(input.returned) <= MaxDocs
    /\ input' = [returned |-> Append(input.returned, [value |-> document])]
    /\ call' = Outcome("caller_append", document, "ok", None)
    /\ UNCHANGED engine_vars

\* docs[k - 1]["title"] = title on the returned list
caller_set_title(k, title) ==
    /\ input # None
    /\ k \in DOMAIN input.returned
    /\ IF "ref" \in DOMAIN input.returned[k]
       THEN /\ document_collection' =
                   [document_collection EXCEPT ![input.returned[k].ref] =
                       ("title" :> title) @@ @]
            /\ UNCHANGED input
       ELSE /\ input' = [returned |->
                            [input.returned EXCEPT ![k] =
                                [value |-> ("title" :> title) @@ @.value]]]
            /\ UNCHANGED document_collection
    /\ call' = Outcome("caller_set_title", k, "ok", None)
    /\ UNCHANGED <<engine_type, search_history, is_initialized, inverted_index,
                   index_built, scoring_method, similarity_threshold>>

NextDocuments ==
    \/ \E document \in Documents : add_document(document)
    \/ get_documents
    \/ \E document \in Documents : caller_append(document)
    \/ \E k \in 1..(MaxDocs + 1), title \in NewTitles : caller_set_title(k, title)

SpecDocuments == Init /\ [][NextDocuments]_vars

\* C18: nothing the caller does to the list get_documents returned, appending
\* to it or changing one of its documents, changes the engine's collection.
C18_ReturnedDocumentsAreACopy ==
    [][call'.op \in {"caller_append", "caller_set_title"} =>
          document_collection' = document_collection]_vars

-----------------------------------------------------------------------------
(* src/src/search_system.py: what the caller of search holds.  dict.copy() in
   add_document and in execute_search copies the fields of a document and
   not the objects they name: a tag list is one object in input.heap, and the
   caller's dict, the stored dict and every result record made from it hold
   [ref |-> n] to it.  The metadata dict of a returned bundle is the dict the
   newest history record holds.  call.ret is the bundle the caller holds. *)

MaxTags == 2

TagLists == <<<<"t">>, <<>>>>

TaggedDocuments ==
    {[doc_id |-> "1", title |-> <<"A">>, text |-> <<"a", " ", "b">>,
      tags |-> [ref |-> 1]],
     [doc_id |-> "2", title |-> <<"a">>, text |-> <<"b">>,
      tags |-> [ref |-> 2]]}

NewTags == {"x"}

InitResults ==
    /\ engine_type \in {"boolean", "ranked", "semantic"}
    /\ document_collection = <<>>
    /\ search_history = <<>>
    /\ is_initialized = FALSE
    /\ inverted_index = [is_none |-> TRUE, dict |-> <<>>]
    /\ index_built = FALSE
    /\ scoring_method = "tf"
    /\ similarity_threshold = Frac(1, 10)
    /\ input = [heap |-> TagLists]
    /\ call = Outcome("__init__", None, "ok", None)

\* the caller holds a bundle that search returned
holds_bundle ==
    /\ call.op \in {"search", "search_with_pagination", "caller_append_tag",
                    "caller_set_title", "caller_set_metadata"}
    /\ call.status = "ok"

\* bundle["results"][k - 1]["tags"].append(tag)
caller_append_tag(k, tag) ==
    /\ holds_bundle
    /\ k \in DOMAIN call.ret.results
    /\ "tags" \in DOMAIN call.ret.results[k]
    /\ Len(input.heap[call.ret.results[k].tags.ref]) < MaxTags
    /\ input' = [heap |-> [input.heap EXCEPT ![call.ret.results[k].tags.ref] =
                               Append(@, tag)]]
    /\ call' = Outcome("caller_append_tag", k, "ok", call.ret)
    /\ UNCHANGED engine_vars

\* bundle["results"][k - 1]["title"] = title
caller_set_result_title(k, title) ==
    /\ holds_bundle
    /\ k \in DOMAIN call.ret.results
    /\ call' = Outcome("caller_set_title", k, "ok",
                   [call.ret EXCEPT !.results[k] = ("title" :> title) @@ @])
    /\ UNCHANGED <<engine_vars, input>>

\* bundle["metadata"]["original_query"] = title
caller_set_metadata(title) ==
    /\ holds_bundle
    /\ search_history' =
           [search_history EXCEPT ![Len(search_history)].metadata =
               ("original_query" :> title) @@ @]
    /\ call' = Outcome("caller_set_metadata", title, "ok",
                   [call.ret EXCEPT !.metadata =
                       ("original_query" :> title) @@ @])
    /\ UNCHANGED <<engine_type, document_collection, is_initialized,
                   inverted_index, index_built, scoring_method,
                   similarity_threshold, input>>

NextResults ==
    \/ \E document \in TaggedDocuments : add_document(document)
    \/ \E query \in Queries : search(query)
    \/ \E query \in Queries, page \in Pages, per_page \in PageSizes :
           search_with_pagination(query, page, per_page)
    \/ \E k \in 1..MaxDocs, tag \in NewTags : caller_append_tag(k, tag)
    \/ \E k \in 1..MaxDocs, title \in NewTitles :
           caller_set_result_title(k, title)
    \/ \E title \in NewTitles : caller_set_metadata(title)

SpecResults == InitResults /\ [][NextResults]_vars

\* a document with its tag list read out of the heap
with_tags(document) ==
    IF "tags" \in DOMAIN document
    THEN [document EXCEPT !.tags = input.heap[@.ref]]
    ELSE document

stored_documents ==
    [i \in DOMAIN document_collection |-> with_tags(document_collection[i])]

CallerOps == {"caller_append_tag", "caller_set_title", "caller_set_metadata"}

\* C24: nothing the caller does to a result record that search returned, to a
\* field of it or to its tag list, changes a document the engine stores.
C24_ResultRecordsAreIndependent ==
    [][call'.op \in CallerOps => stored_documents' = stored_documents]_vars

\* C26: a record of the history keeps its query, processed query, result count
\* and metadata for as long as it is in the history, and its metadata are the
\* ones search wrote, which have no pagination entry.
C26_HistoryRecordsNeverChange ==
    /\ [](\A i \in DOMAIN search_history :
              "pagination" \notin DOMAIN search_history[i].metadata)
    /\ [][\A i \in DOMAIN search_history :
              /\ i \in DOMAIN search_history'
              /\ search_history'[i] = search_history[i]]_vars

-----------------------------------------------------------------------------
(* src/main.py: SearchOrderSystem.search_documents on the engine of one type.
   The engine is the one __init__ made, with the default scoring method and
   threshold; input.store is self.documents in insertion order.  A call is
   the steps of its body in their order: engine.add_document for every
   document of the store, then engine.search.  Nothing else touches the
   engine, so the place of a call in its body is told by the step before
   it. *)

Stores ==
    {<<>>} \cup {<<document>> : document \in TaggedDocuments}
        \cup {<<first, second>> : first, second \in TaggedDocuments}

InitSystem ==
    /\ engine_type \in {"boolean", "ranked", "semantic"}
    /\ document_collection = <<>>
    /\ search_history = <<>>
    /\ is_initialized = FALSE
    /\ inverted_index = [is_none |-> TRUE, dict |-> <<>>]
    /\ index_built = FALSE
    /\ scoring_method = "tf"
    /\ similarity_threshold = Frac(1, 10)
    /\ input \in {[heap |-> TagLists, store |-> store] :
                     store \in {s \in Stores :
                         \A i, j \in DOMAIN s : s[i] = s[j] => i = j}}
    /\ call = Outcome("__init__", None, "ok", None)

\* how many documents the for loop of the running call has added
added_by_call ==
    IF call.op = "add_document"
    THEN ((Len(document_collection) - 1) % Len(input.store)) + 1
    ELSE 0

\* for doc in self.documents.values(): engine.add_document(doc_dict)
search_documents_add ==
    /\ added_by_call < Len(input.store)
    /\ add_document(input.store[added_by_call + 1])

\* search_result = engine.search(query)
search_documents_search(query) ==
    /\ added_by_call = Len(input.store)
    /\ search(query)

\* what search_documents returns after its search: the documents of the store
\* named by the result records, [] after an exception
search_documents_ret ==
    LET results == IF call.status = "ok" THEN call.ret.results ELSE <<>>
        in_store(k) == \E i \in DOMAIN input.store :
                           input.store[i].doc_id = results[k].doc_id
        RECURSIVE convert(_)
        convert(k) ==
            IF k > Len(results) THEN <<>>
            ELSE IF in_store(k)
                 THEN <<CHOOSE document \in Range(input.store) :
                            document.doc_id = results[k].doc_id>>
                          \o convert(k + 1)
                 ELSE convert(k + 1)
    IN  convert(1)

NextSystem ==
    \/ search_documents_add
    \/ \E query \in Queries : search_documents_search(query)

SpecSystem == InitSystem /\ [][NextSystem]_vars

\* C27: with the store unchanged, a call of search_documents returns no
\* document twice, and two calls with the same query find as many documents.
C27_SearchDocumentsRepeatable ==
    /\ call.op = "search" =>
           \A i, j \in DOMAIN search_documents_ret :
               search_documents_ret[i] = search_documents_ret[j] => i = j
    /\ \A i, j \in DOMAIN search_history :
           search_history[i].query = search_history[j].query =>
               search_history[i].result_count = search_history[j].result_count

-----------------------------------------------------------------------------
(* src/src/library_name.py called directly: the text functions *)

TextChars == {"a", "B", " ", "\t"}

Texts == Str(MaxTextLen, TextChars)

MaxCharsArgs == -1..MaxTextLen

InitText ==
    /\ NoEngine
    /\ input \in [text : Texts]
    /\ call = Outcome("none", None, "ok", None)

call_normalize_query ==
    /\ call' = Outcome("normalize_query", None, "ok",
                       normalize_query(input.text))
    /\ UNCHANGED <<engine_vars, input>>

call_truncate_snippet(max_chars) ==
    /\ call' = Outcome("truncate_snippet", max_chars, "ok",
                       truncate_snippet(input.text, max_chars))
    /\ UNCHANGED <<engine_vars, input>>

NextText ==
    \/ call_normalize_query
    \/ \E max_chars \in MaxCharsArgs : call_truncate_snippet(max_chars)

SpecText == InitText /\ [][NextText]_vars

-----------------------------------------------------------------------------
(* Properties of the text functions, checked under SpecText *)

\* C19: the result of normalize_query is left as it is by normalize_query, is
\* the result for the lowercased query too, neither begins nor ends with
\* whitespace, and has no two spaces in a row.
C19_NormalizeIdempotent ==
    call.op = "normalize_query" =>
        /\ normalize_query(call.ret) = call.ret
        /\ normalize_query(lower(input.text)) = call.ret
        /\ call.ret # <<>> =>
               /\ call.ret[1] \notin Whitespace
               /\ call.ret[Len(call.ret)] \notin Whitespace
        /\ \A i \in 1..(Len(call.ret) - 1) :
               ~(call.ret[i] = " " /\ call.ret[i + 1] = " ")

\* three spaces between two words, one of them in capitals
C19_Witness ==
    /\ call.op = "normalize_query"
    /\ input.text = <<"B", " ", " ", " ", "a">>
    /\ call.ret = <<"b", " ", "a">>

\* C20: truncate_snippet returns the text as it is when it has at most
\* max_chars characters; otherwise the first max_chars characters, cut back to
\* before their last space if they hold one, and one ellipsis behind them, the
\* part before the ellipsis being a non-empty prefix of the text of at most
\* max_chars characters.
C20_TruncateKeepsNonEmptyPrefix ==
    (call.op = "truncate_snippet" /\ call.arg >= 1) =>
        IF Len(input.text) <= call.arg
        THEN call.ret = input.text
        ELSE LET spaces == {i \in 1..call.arg : input.text[i] = " "}
                 kept == IF spaces = {} THEN call.arg
                         ELSE (CHOOSE i \in spaces : \A j \in spaces : j <= i) - 1
             IN  /\ call.ret = SubSeq(input.text, 1, kept) \o <<Ellipsis>>
                 /\ kept >= 1
                 /\ kept <= call.arg

-----------------------------------------------------------------------------
(* src/src/library_name.py called directly: highlight_query_terms *)

HighlightChars == {"a", "B", ",", " "}

HighlightTexts == Str(MaxTextLen, HighlightChars)

HighlightTerms ==
    {<<<<"a">>>>, <<<<"b">>>>, <<<<"a">>, <<"A", "b">>>>, <<<<"a">>, <<"a">>>>}

Markers == {[pre |-> <<"<">>, post |-> <<">">>], [pre |-> <<"[">>, post |-> <<"]">>]}

InitHighlight ==
    /\ NoEngine
    /\ input \in [text : HighlightTexts]
    /\ call = Outcome("none", None, "ok", None)

call_highlight_query_terms(terms, markers) ==
    /\ call' = Outcome("highlight_query_terms",
                       [terms |-> terms, pre |-> markers.pre,
                        post |-> markers.post],
                       "ok",
                       highlight_query_terms(input.text, terms, markers.pre,
                                             markers.post))
    /\ UNCHANGED <<engine_vars, input>>

NextHighlight ==
    \E terms \in HighlightTerms, markers \in Markers :
        call_highlight_query_terms(terms, markers)

SpecHighlight == InitHighlight /\ [][NextHighlight]_vars

\* the token with its core, the part between its leading and its trailing
\* punctuation, wrapped in the markers when the core is one of the terms but
\* for case
wrapped_once(token, terms, pre, post) ==
    LET inner == {i \in DOMAIN token : token[i] \notin Punctuation}
        first == CHOOSE i \in inner : \A j \in inner : i <= j
        last == CHOOSE i \in inner : \A j \in inner : j <= i
        core == SubSeq(token, first, last)
    IN  IF inner # {} /\ \E t \in DOMAIN terms : lower(core) = lower(terms[t])
        THEN SubSeq(token, 1, first - 1) \o pre \o core \o post
                 \o SubSeq(token, last + 1, Len(token))
        ELSE token

\* C21: every token of the text whose core equals a term but for case comes
\* out wrapped once in pre and post, in its own casing and with its
\* punctuation outside the markers; every other token comes out as it was.
C21_HighlightWrapsMatchesOnce ==
    call.op = "highlight_query_terms" =>
        LET tokens == split(input.text)
        IN  split(call.ret) =
                [i \in DOMAIN tokens |->
                    wrapped_once(tokens[i], call.arg.terms, call.arg.pre,
                                 call.arg.post)]

====
